---- MODULE Spec2Model ----
(***************************************************************************)
(* A model of the wikip scrapers: scripts/afd.py (Articles-for-Deletion    *)
(* log scraper) and scripts/new.py (new-pages crawler).                    *)
(*                                                                         *)
(* Every generator of the scripts is a small state machine: one action per *)
(* resumption.  Each program part has its own specification (SpecBreakBy,  *)
(* SpecAfds, SpecLinks, SpecNew, SpecIndex, SpecMain); the variables of    *)
(* the other parts stay at their idle values.                              *)
(*                                                                         *)
(* Conventions.  Sequences are 1-based, so Python index i is position i+1. *)
(* A string is a sequence of whitespace-separated words; `None` values are *)
(* sentinels of the same shape as the values they stand beside.            *)
(***************************************************************************)
EXTENDS Integers, Sequences, FiniteSets, TLC

VARIABLES
    \* break_by(fn, xs)                                   afd.py 202-216
    fn, xs, pos, accum, groups, bb_pc,
    \* get_log_page / get_afds                            afd.py 243-319
    content, sections, records, rows, afd_pc,
    \* find_links(parent, base_uri)                       afd.py 122-131
    parent, anchors, links, fl_pc,
    \* new.py main / get_new                              new.py 93-132
    pages, page, row, fetched, yielded, phase, written, new_pc,
    \* get_afd_index                                      afd.py 182-199
    index, cursor, pending, index_links, ix_pc,
    \* afd.py main (--date-range / --week)                afd.py 456-485
    date_range, week, dates, scraped, main_pc

bbVars   == <<fn, xs, pos, accum, groups, bb_pc>>
afdVars  == <<content, sections, records, rows, afd_pc>>
flVars   == <<parent, anchors, links, fl_pc>>
newVars  == <<pages, page, row, fetched, yielded, phase, written, new_pc>>
ixVars   == <<index, cursor, pending, index_links, ix_pc>>
mainVars == <<date_range, week, dates, scraped, main_pc>>
vars     == <<bbVars, afdVars, flVars, newVars, ixVars, mainVars>>

\* What an action of one part leaves alone: the variables of the other parts.
notBreakBy == <<afdVars, flVars, newVars, ixVars, mainVars>>
notAfds    == <<bbVars, flVars, newVars, ixVars, mainVars>>
notLinks   == <<bbVars, afdVars, newVars, ixVars, mainVars>>
notNew     == <<bbVars, afdVars, flVars, ixVars, mainVars>>
notIndex   == <<bbVars, afdVars, flVars, newVars, mainVars>>
notMain    == <<bbVars, afdVars, flVars, newVars, ixVars>>

----------------------------------------------------------------------------
(* Bounds of the model. *)

\* Longest input sequence given to break_by.
MaxLen == 4
\* Number of distinct items break_by is fed.
MaxItem == 3

----------------------------------------------------------------------------
(* Generic helpers. *)

RECURSIVE SeqsUpTo(_, _)
SeqsUpTo(S, n) ==
    IF n = 0 THEN {<<>>}
    ELSE LET shorter == SeqsUpTo(S, n - 1)
         IN  shorter \cup {Append(s, e) : s \in {t \in shorter : Len(t) = n - 1}, e \in S}

RECURSIVE Flatten(_)
Flatten(ss) == IF ss = <<>> THEN <<>> ELSE Head(ss) \o Flatten(Tail(ss))

Range(s) == {s[i] : i \in 1..Len(s)}

----------------------------------------------------------------------------
(* break_by: afd.py 202-216.  fn is the set of items the predicate holds   *)
(* of; accum is the deque; groups are the chunks yielded so far.           *)

\* Without the `and accum` guard: a chunk is cut before every boundary element, also when
\* nothing has been accumulated.
BreakHereUnguarded(f, x, acc) == x \in f

\* `if fn(x) and accum:`
BreakHere(f, x, acc) == x \in f /\ acc # <<>>

IdleBreakBy ==
    /\ fn = {} /\ xs = <<>> /\ pos = 0 /\ accum = <<>> /\ groups = <<>>
    /\ bb_pc = "idle"

InitBreakBy ==
    /\ fn \in SUBSET (1..MaxItem)
    /\ xs \in SeqsUpTo(1..MaxItem, MaxLen)
    /\ pos = 1
    /\ accum = <<>>
    /\ groups = <<>>
    /\ bb_pc = "loop"

\* One turn of `for x in xs`: yield the accumulated chunk at a boundary, then
\* append x.
BreakByStep ==
    /\ bb_pc = "loop"
    /\ pos <= Len(xs)
    /\ IF BreakHere(fn, xs[pos], accum)
       THEN /\ groups' = Append(groups, accum)
            /\ accum' = <<xs[pos]>>
       ELSE /\ groups' = groups
            /\ accum' = Append(accum, xs[pos])
    /\ pos' = pos + 1
    /\ UNCHANGED <<fn, xs, bb_pc, notBreakBy>>

\* After the loop: `if accum: yield accum.copy()`, and the generator ends.
BreakByFlush ==
    /\ bb_pc = "loop"
    /\ pos > Len(xs)
    /\ groups' = IF accum # <<>> THEN Append(groups, accum) ELSE groups
    /\ bb_pc' = "done"
    /\ UNCHANGED <<fn, xs, pos, accum, notBreakBy>>

NextBreakBy == BreakByStep \/ BreakByFlush

\* break_by as a function, for its callers: the fold of the same loop, f being
\* the set of elements of s the predicate holds of.
RECURSIVE BreakByLoop(_, _, _, _)
BreakByLoop(f, s, acc, out) ==
    IF s = <<>> THEN (IF acc # <<>> THEN Append(out, acc) ELSE out)
    ELSE IF BreakHere(f, Head(s), acc)
         THEN BreakByLoop(f, Tail(s), <<Head(s)>>, Append(out, acc))
         ELSE BreakByLoop(f, Tail(s), Append(acc, Head(s)), out)

BreakBy(f, s) == BreakByLoop(f, s, <<>>, <<>>)

----------------------------------------------------------------------------
(* The element tree (lxml).  An element has a tag, the attributes the      *)
(* scripts read (id, class, href), its own text, its children and its tail *)
(* (the text after its end tag).  A missing attribute or text is a         *)
(* sentinel: el.get(...) and el.text return None for it.                   *)

NoId    == "<None>"
NoClass == {"<None>"}
NoText  == <<"<None>">>
NoneUrl == [host |-> "<None>", path |-> "<None>"]

\* A relative reference has no host: all hrefs of the pages are absolute
\* paths ("/wiki/X") or full URLs.
Rel(path) == [host |-> "", path |-> path]
Abs(host, path) == [host |-> host, path |-> path]

\* urllib.parse.urljoin(base, url): `if not url: return base`, then the
\* reference is resolved against the base.
Urljoin(base, url) ==
    IF url = NoneUrl \/ url = Rel("") THEN base
    ELSE IF url.host = "" THEN [host |-> base.host, path |-> url.path]
    ELSE url

El(tag, cls, text, kids) ==
    [tag |-> tag, id |-> NoId, cls |-> cls, href |-> NoneUrl,
     text |-> text, kids |-> kids, tail |-> <<>>]

Anchor(cls, href, text) ==
    [tag |-> "a", id |-> NoId, cls |-> cls, href |-> href,
     text |-> text, kids |-> <<>>, tail |-> <<>>]

Span(id, cls, text, kids) ==
    [tag |-> "span", id |-> id, cls |-> cls, href |-> NoneUrl,
     text |-> text, kids |-> kids, tail |-> <<>>]

\* el.text / el.tail with None read as ''.
TextOrEmpty(t) == IF t = NoText THEN <<>> ELSE t

\* all_text: afd.py 90-94, text + children + tail, depth first.
RECURSIVE all_text(_)
RECURSIVE AllTextOfSeq(_)
all_text(el) == TextOrEmpty(el.text) \o AllTextOfSeq(el.kids) \o TextOrEmpty(el.tail)
AllTextOfSeq(els) ==
    IF els = <<>> THEN <<>> ELSE all_text(Head(els)) \o AllTextOfSeq(Tail(els))

\* The descendants of an element in document order (el.findall('.//tag')
\* walks them in this order).
RECURSIVE Descendants(_)
RECURSIVE DescendantsOfSeq(_)
Descendants(el) == DescendantsOfSeq(el.kids)
DescendantsOfSeq(els) ==
    IF els = <<>> THEN <<>>
    ELSE <<Head(els)>> \o Descendants(Head(els)) \o DescendantsOfSeq(Tail(els))

SelectTag(els, tag) == SelectSeq(els, LAMBDA e : e.tag = tag)

\* [@class="mw-headline"]: the attribute equals the string.
IsHeadline(e) == e.tag = "span" /\ e.cls = {"mw-headline"}

----------------------------------------------------------------------------
(* Tags and tokens: afd.py 27-55, 236-240. *)

\* BIO_TAGS, afd.py 28-49.
BIO_TAGS ==
    {"Authors-related", "Businesspeople-related", "educators-related",
     "filmmakers-related", "People-related", "Politicians-related",
     "Sportspeople-related", "Women-related",
     "WP:ACADEMIC", "WP:ANYBIO", "WP:ARTIST", "WP:BIO", "WP:MUSBIO",
     "WP:MUSICBIO", "WP:NACADEMIC", "WP:NACTOR", "WP:NSPORT", "WP:TEACHER"}

\* WP_TAG.findall on one word of the pages' vocabulary (afd.py 27,
\* r'WP:\w+'): the match stops at the first non-word character.
WpTagsIn(w) ==
    CASE w = "WP:BIO"       -> {"WP:BIO"}
      [] w = "WP:BIO."      -> {"WP:BIO"}
      [] w = "(WP:NACTOR)"  -> {"WP:NACTOR"}
      [] w = "WP:ARTIST"    -> {"WP:ARTIST"}
      [] w = "WP:GNG"       -> {"WP:GNG"}
      [] OTHER              -> {}

\* process_text: afd.py 236-240.  text.split() gives the words.
process_text(node, tokens, tags) ==
    LET text == all_text(node)
    IN  [tags   |-> tags \cup UNION {WpTagsIn(text[i]) : i \in 1..Len(text)},
         tokens |-> tokens \cup Range(text)]

\* A narrower test: only the policy shortcuts of the vocabulary count, not its
\* category names.
IsBioTagsOnly(tokens) ==
    {t \in tokens \cap BIO_TAGS : t \notin {"Authors-related", "Businesspeople-related",
        "educators-related", "filmmakers-related", "People-related",
        "Politicians-related", "Sportspeople-related", "Women-related"}}

\* is_bio: afd.py 52-55.
is_bio(tokens) == tokens \cap BIO_TAGS

\* The order of Python's str comparison (by code point) on the strings of
\* BIO_TAGS: capitals sort before small letters, "WP:" before "Wo".
StrOrder ==
    <<"Authors-related", "Businesspeople-related", "People-related",
      "Politicians-related", "Sportspeople-related", "WP:ACADEMIC",
      "WP:ANYBIO", "WP:ARTIST", "WP:BIO", "WP:MUSBIO", "WP:MUSICBIO",
      "WP:NACADEMIC", "WP:NACTOR", "WP:NSPORT", "WP:TEACHER",
      "Women-related", "educators-related", "filmmakers-related">>

StrRank(w) == CHOOSE i \in 1..Len(StrOrder) : StrOrder[i] = w
StrLess(a, b) == StrRank(a) < StrRank(b)

\* sorted(bio_tags), afd.py 317: the least remaining string first.
RECURSIVE sorted(_)
sorted(S) ==
    IF S = {} THEN <<>>
    ELSE LET m == CHOOSE a \in S : \A b \in S \ {a} : StrLess(a, b)
         IN  <<m>> \o sorted(S \ {m})

----------------------------------------------------------------------------
(* get_afds and get_log_page: afd.py 243-319. *)

\* Longest list of top-level children of a log page.
MaxContent == 3

\* The log page fetched, and its date (url_to_date of its canonical link).
LogUrl  == Abs("en.wikipedia.org", "/wiki/Wikipedia:Articles_for_deletion/Log/2017_July_1")
LogDate == "2017-07-01"

ClosedBox(kids) == El("div", {"boilerplate", "xfd-closed"}, NoText, kids)

\* The children a log page is built from.
hKeep == El("h3", NoClass, NoText,
            <<Span("Alice", {"mw-headline"}, NoText,
                   <<Anchor(NoClass, Rel("/wiki/Alice"), <<"Alice">>)>>)>>)
hNew  == El("h3", NoClass, NoText,
            <<Span("Bob", {"mw-headline"}, NoText,
                   <<Anchor({"new"}, Rel("/w/index.php?title=Bob"), <<"Bob">>)>>)>>)
hRed  == El("h3", NoClass, NoText,
            <<Span("Carol", {"mw-headline"}, <<"Carol">>, <<>>)>>)
hBare == El("h3", NoClass, <<"Dave">>, <<>>)
pBio  == El("p", NoClass, <<"meets", "WP:BIO.">>,
            <<Anchor(NoClass, Rel("/wiki/People"), <<"People-related">>)>>)
pGng  == El("p", NoClass, <<"fails", "WP:GNG">>, <<>>)
pMenu == El("div", {"noprint"}, <<"WP:ARTIST">>,
            <<Anchor(NoClass, Rel("/wiki/AfD/Alice"), <<"View", "AfD">>)>>)
divBare  == El("div", NoClass, <<"note">>, <<>>)
boxEmpty == ClosedBox(<<pGng>>)
boxRed   == ClosedBox(<<pGng, hRed, pBio>>)
\* A menu with two 'View AfD' anchors, the first of the document one level
\* below the second; a span that reads 'View AfD' and has no href; a closed
\* discussion with text before its menu and a second menu after it.
pDeep == El("div", {"noprint"}, NoText,
            <<Span(NoId, NoClass, <<"(WP:NACTOR)">>,
                   <<Anchor(NoClass, Rel("/wiki/AfD/Deep"), <<"View", "AfD">>)>>),
              Anchor(NoClass, Rel("/wiki/AfD/Shallow"), <<"View", "AfD">>)>>)
sView == Span(NoId, NoClass, <<"View", "AfD">>, <<>>)
boxMenus == ClosedBox(<<hKeep, pBio, pDeep, pMenu, pGng>>)

Elements ==
    {hKeep, hNew, hRed, hBare, pBio, pGng, pMenu, divBare, boxEmpty, boxRed,
     pDeep, sView, boxMenus}

\* is_header: afd.py 58-64.  node.get('class', '') reads a missing class as
\* '', and the second test is reached only when the first holds.
is_header(node) ==
    \/ /\ node.tag = "h3"
       /\ \E i \in 1..Len(node.kids) :
            /\ IsHeadline(node.kids[i])
            /\ \E j \in 1..Len(node.kids[i].kids) : node.kids[i].kids[j].tag = "a"
    \/ /\ node.tag = "div"
       /\ "boilerplate" \in node.cls
       /\ "xfd-closed" \in node.cls

Headers(els) == {e \in Range(els) : is_header(e)}

NoNode == El("<None>", NoClass, NoText, <<>>)

\* find_text_node: afd.py 219-233, breadth first from the parent itself.
RECURSIVE FindTextNodeLoop(_, _)
FindTextNodeLoop(q, text) ==
    IF q = <<>> THEN NoNode
    ELSE IF Head(q).text = text THEN Head(q)
    ELSE FindTextNodeLoop(Tail(q) \o Head(q).kids, text)

\* A search in document order (depth first) instead of the queue.
FindTextNodeDepthFirst(node, text) ==
    LET hits == SelectSeq(<<node>> \o Descendants(node), LAMBDA n : n.text = text)
    IN  IF hits = <<>> THEN NoNode ELSE Head(hits)

find_text_node(node, text) == FindTextNodeLoop(<<node>>, text)

\* `while section and section[0].tag != 'h3': section.popleft()`
RECURSIVE DropToH3(_)
DropToH3(s) ==
    IF s = <<>> \/ Head(s).tag = "h3" THEN s ELSE DropToH3(Tail(s))

\* afd.py 249-254: the section a block is parsed from, or how the loop is
\* left.  'xfd-closed' in None is a TypeError.
Unwrap(section) ==
    LET first == Head(section)
    IN  IF first.tag = "div" /\ first.cls = NoClass
        THEN [how |-> "raise", section |-> section]
        ELSE IF first.tag = "div" /\ "xfd-closed" \in first.cls
        THEN LET inner == DropToH3(first.kids)
             IN  IF inner = <<>>
                 THEN [how |-> "break", section |-> inner]
                 ELSE [how |-> "go", section |-> inner]
        ELSE [how |-> "go", section |-> section]

\* h3.find('.//span[@class="mw-headline"]'): the first such descendant.
HeadlineSpan(h3) ==
    LET spans == SelectSeq(Descendants(h3), IsHeadline)
    IN  IF spans = <<>> THEN NoNode ELSE Head(spans)

\* afd.py 260-269, for a span that was found.
Heading(span) ==
    IF Len(span.kids) = 0
    THEN [title |-> span.text, page_link |-> NoneUrl, keep |-> FALSE]
    ELSE LET a == span.kids[1]
         IN  [title |-> a.text, page_link |-> a.href, keep |-> a.cls # {"new"}]

\* afd.py 279-286: elements up to the one holding 'View AfD'.
RECURSIVE ScanMenu(_, _)
ScanMenu(section, bag) ==
    IF section = <<>>
    THEN [afd_link |-> NoneUrl, bag |-> bag, section |-> section]
    ELSE LET menu == Head(section)
             afd_node == find_text_node(menu, <<"View", "AfD">>)
         IN  IF afd_node = NoNode
             THEN ScanMenu(Tail(section), process_text(menu, bag.tokens, bag.tags))
             ELSE [afd_link |-> afd_node.href, bag |-> bag, section |-> Tail(section)]

\* afd.py 288-289: `for el in section: process_text(el, tokens, tags)`.
RECURSIVE ScanRest(_, _)
ScanRest(section, bag) ==
    IF section = <<>> THEN bag
    ELSE ScanRest(Tail(section), process_text(Head(section), bag.tokens, bag.tags))

\* One turn of the loop of get_afds on a block: how the turn ends ("break",
\* "continue", "raise" or "yield") and the tuple yielded.
NoRecord ==
    [date |-> LogDate, title |-> NoText, links |-> <<NoneUrl, NoneUrl>>,
     tags |-> {}, tokens |-> {}, keep |-> FALSE]

Block(block) ==
    LET u == Unwrap(block)
    IN  IF u.how # "go" THEN [how |-> u.how, rec |-> NoRecord]
        ELSE LET h3 == Head(u.section)
                 span == HeadlineSpan(h3)
             IN  IF h3.tag # "h3" THEN [how |-> "continue", rec |-> NoRecord]
                 ELSE IF span = NoNode THEN [how |-> "raise", rec |-> NoRecord]
                 ELSE LET h == Heading(span)
                          m == ScanMenu(Tail(u.section), [tags |-> {}, tokens |-> {}])
                          bag == ScanRest(m.section, m.bag)
                      IN  [how |-> "yield",
                           rec |-> [date |-> LogDate, title |-> h.title,
                                    links |-> <<h.page_link, m.afd_link>>,
                                    tags |-> bag.tags, tokens |-> bag.tokens,
                                    keep |-> h.keep]]

\* The row get_log_page builds from a tuple of get_afds: afd.py 312-319.
\* The Hits column is the sorted hits joined by blanks.
LogRow(rec) ==
    [date |-> rec.date,
     title |-> rec.title,
     page_link |-> Urljoin(LogUrl, rec.links[1]),
     afd_link |-> IF rec.links[2] # NoneUrl THEN Urljoin(LogUrl, rec.links[2]) ELSE NoneUrl,
     hits |-> sorted(is_bio(rec.tags \cup rec.tokens)),
     keep |-> rec.keep]

IdleAfds ==
    /\ content = <<>> /\ sections = <<>> /\ records = <<>> /\ rows = <<>>
    /\ afd_pc = "idle"

InitAfds ==
    /\ content \in SeqsUpTo(Elements, MaxContent)
    /\ sections = BreakBy(Headers(content), content)
    /\ records = <<>>
    /\ rows = <<>>
    /\ afd_pc = "loop"

\* The blocks of the page, and the number of the block the loop is at.
Blocks == BreakBy(Headers(content), content)
BlockNo == Len(Blocks) - Len(sections) + 1

\* `break`: the loop is left and the generators end normally.
AfdsBreak ==
    /\ afd_pc = "loop" /\ sections # <<>>
    /\ Block(Head(sections)).how = "break"
    /\ afd_pc' = "done"
    /\ sections' = Tail(sections)
    /\ UNCHANGED <<content, records, rows, notAfds>>

\* `continue`: on to the next block.
AfdsContinue ==
    /\ afd_pc = "loop" /\ sections # <<>>
    /\ Block(Head(sections)).how = "continue"
    /\ sections' = Tail(sections)
    /\ UNCHANGED <<content, records, rows, afd_pc, notAfds>>

\* An exception leaves get_afds and get_log_page.
AfdsRaise ==
    /\ afd_pc = "loop" /\ sections # <<>>
    /\ Block(Head(sections)).how = "raise"
    /\ afd_pc' = "error"
    /\ sections' = Tail(sections)
    /\ UNCHANGED <<content, records, rows, notAfds>>

\* get_afds yields the tuple; get_log_page yields its row when is_bio finds
\* hits.  Tuples and rows carry the number of their block.
AfdsYield ==
    /\ afd_pc = "loop" /\ sections # <<>>
    /\ LET b == Block(Head(sections))
       IN  /\ b.how = "yield"
           /\ records' = Append(records, [block |-> BlockNo, tuple |-> b.rec])
           /\ rows' = IF is_bio(b.rec.tags \cup b.rec.tokens) # {}
                      THEN Append(rows, [block |-> BlockNo, row |-> LogRow(b.rec)])
                      ELSE rows
    /\ sections' = Tail(sections)
    /\ UNCHANGED <<content, afd_pc, notAfds>>

\* The blocks are exhausted.
AfdsEnd ==
    /\ afd_pc = "loop" /\ sections = <<>>
    /\ afd_pc' = "done"
    /\ UNCHANGED <<content, sections, records, rows, notAfds>>

NextAfds == AfdsBreak \/ AfdsContinue \/ AfdsRaise \/ AfdsYield \/ AfdsEnd

----------------------------------------------------------------------------
(* find_links: afd.py 122-131. *)

\* Most children of the subtree find_links is given.
MaxAnchors == 3

\* INDEX_URI, afd.py 19: the base the index links are resolved against.
INDEX_URI == Abs("en.wikipedia.org", "/wiki/Wikipedia:Articles_for_deletion")

\* The children a list is built from: a link, a pagination link, anchors
\* without href, an image link (no text of its own), a link whose own text
\* is a number followed by markup, and a link inside a list item.
aX      == Anchor(NoClass, Rel("/wiki/Log/2017_July_1"), <<"1", "July">>)
a5      == Anchor(NoClass, Rel("/wiki/Log?page=5"), <<"5">>)
aName   == Anchor(NoClass, NoneUrl, <<"top">>)
aBare   == Anchor(NoClass, NoneUrl, NoText)
aImg    == [Anchor({"image"}, Rel("/wiki/File:Icon.png"), NoText)
              EXCEPT !.kids = <<El("img", NoClass, NoText, <<>>)>>]
aMixed  == [Anchor(NoClass, Rel("/wiki/Log/2017_July_12"), <<"12">>)
              EXCEPT !.kids = <<El("sup", NoClass, <<"th">>, <<>>)>>]
liX     == El("li", NoClass, <<"see">>,
              <<Anchor(NoClass, Abs("tools.wmflabs.org", "/afd"), <<"stats">>)>>)

ListItems == {aX, a5, aName, aBare, aImg, aMixed, liX}

\* str.isdigit() on one word of the pages' vocabulary.
IsDigitWord(w) == w \in {"1", "5", "12"}

\* str.isdigit() on a text: a non-empty string of digits only, so one word.
isdigit(text) == Len(text) = 1 /\ IsDigitWord(text[1])

\* One turn of the loop of find_links on anchor a, afd.py 129-131: a.text is
\* read only when there is an href, and None has no isdigit.
FindLinksTurn(a) ==
    IF a.href = NoneUrl THEN "skip"
    ELSE IF a.text = NoText THEN "raise"
    ELSE IF isdigit(a.text) THEN "skip"
    ELSE "yield"

\* parent.findall('.//a')
FindallA(node) == SelectTag(Descendants(node), "a")

IdleLinks ==
    /\ parent = NoNode /\ anchors = <<>> /\ links = <<>> /\ fl_pc = "idle"

InitLinks ==
    /\ parent \in {El("ul", NoClass, NoText, kids) : kids \in SeqsUpTo(ListItems, MaxAnchors)}
    /\ anchors = FindallA(parent)
    /\ links = <<>>
    /\ fl_pc = "loop"

FindLinksYield ==
    /\ fl_pc = "loop" /\ anchors # <<>>
    /\ FindLinksTurn(Head(anchors)) = "yield"
    /\ links' = Append(links, Urljoin(INDEX_URI, Head(anchors).href))
    /\ anchors' = Tail(anchors)
    /\ UNCHANGED <<parent, fl_pc, notLinks>>

FindLinksSkip ==
    /\ fl_pc = "loop" /\ anchors # <<>>
    /\ FindLinksTurn(Head(anchors)) = "skip"
    /\ anchors' = Tail(anchors)
    /\ UNCHANGED <<parent, links, fl_pc, notLinks>>

\* AttributeError: 'NoneType' object has no attribute 'isdigit'.
FindLinksRaise ==
    /\ fl_pc = "loop" /\ anchors # <<>>
    /\ FindLinksTurn(Head(anchors)) = "raise"
    /\ fl_pc' = "error"
    /\ UNCHANGED <<parent, anchors, links, notLinks>>

FindLinksEnd ==
    /\ fl_pc = "loop" /\ anchors = <<>>
    /\ fl_pc' = "done"
    /\ UNCHANGED <<parent, anchors, links, notLinks>>

NextLinks == FindLinksYield \/ FindLinksSkip \/ FindLinksRaise \/ FindLinksEnd

----------------------------------------------------------------------------
(* new.py: get_new and the date window of main. *)

(* A row of the listing is its timestamp: day is the row's date counted     *)
(* from the target date (-1 the day before, 0 the target date, 1 the day    *)
(* after) and slot the time of day.  The listing (Special:NewPages) is      *)
(* newest first; it is cut into a chain of pages, each page but the last    *)
(* holding the mw-nextlink anchor of the page after it.                     *)

\* Most rows of a listing.
MaxRows == 4
\* Most pages of a chain.
MaxPages == 3
\* Times of day a row can carry.
MaxSlot == 2

Rows == [day : {-1, 0, 1}, slot : 1..MaxSlot]

Newer(r, s) == r.day > s.day \/ (r.day = s.day /\ r.slot > s.slot)

\* The rows of S, newest first.
RECURSIVE Descending(_)
Descending(S) ==
    IF S = {} THEN <<>>
    ELSE LET m == CHOOSE r \in S : \A s \in S \ {r} : Newer(r, s)
         IN  <<m>> \o Descending(S \ {m})

Listings == {Descending(S) : S \in {T \in SUBSET Rows : Cardinality(T) <= MaxRows}}

\* The ways of cutting listing l into n pages: cut[i] rows lie on the pages
\* up to page i.
Cuts(l, n) ==
    {cut \in [0..n -> 0..Len(l)] :
        /\ cut[0] = 0 /\ cut[n] = Len(l)
        /\ \A i \in 1..n : cut[i - 1] <= cut[i]}

PagesOf(l, n, cut) == [i \in 1..n |-> SubSeq(l, cut[i - 1] + 1, cut[i])]

Chains ==
    UNION {UNION {{PagesOf(l, n, cut) : cut \in Cuts(l, n)} : n \in 1..MaxPages}
              : l \in Listings}

\* A get_next that finds no next link on any page.
GetNextNone(p) == 0

\* get_next: new.py 67-74, on page p of the chain: the number of the page the
\* mw-nextlink anchor leads to, 0 (None) on a page without the anchor.
get_next(p) == IF p < Len(pages) THEN p + 1 ELSE 0

\* new.py 130: dropwhile(lambda r: r.timestamp.date() < date, rows)
DropPred(r) == r.day < 0

\* new.py 131: takewhile(lambda r: r.timestamp.date() == date, rows)
TakePred(r) == r.day = 0

IdleNew ==
    /\ pages = <<>> /\ page = 0 /\ row = 0 /\ fetched = <<>> /\ yielded = <<>>
    /\ phase = "idle" /\ written = <<>> /\ new_pc = "idle"

\* get_new(url, parser) has been called on the first page.  phase is where
\* its consumer stands: "drop" and "take" are the dropwhile and takewhile of
\* main, "stop" is main after takewhile has ended; "all" is a consumer that
\* reads get_new to its end.
InitNew ==
    /\ pages \in Chains
    /\ page = 1 /\ row = 0
    /\ fetched = <<>> /\ yielded = <<>> /\ written = <<>>
    /\ phase \in {"all", "drop"}
    /\ new_pc = "fetch"

Pulling == phase \in {"all", "drop", "take"}

\* get_content(url, parser): the page get_new was called on is fetched.
NewFetch ==
    /\ Pulling /\ new_pc = "fetch"
    /\ row' = 1
    /\ fetched' = Append(fetched, page)
    /\ new_pc' = "rows"
    /\ UNCHANGED <<pages, page, yielded, phase, written, notNew>>

\* iter_new_pages yields the next row of the page; dropwhile drops it.
NewRowDropped ==
    /\ phase = "drop" /\ new_pc = "rows" /\ row <= Len(pages[page])
    /\ DropPred(pages[page][row])
    /\ yielded' = Append(yielded, pages[page][row])
    /\ row' = row + 1
    /\ UNCHANGED <<pages, page, fetched, phase, written, new_pc, notNew>>

\* The row passes dropwhile (from its first failure on, every row does) and
\* takewhile, and is written.
NewRowWritten ==
    /\ new_pc = "rows" /\ row <= Len(pages[page])
    /\ \/ phase = "drop" /\ ~DropPred(pages[page][row])
       \/ phase = "take"
    /\ TakePred(pages[page][row])
    /\ yielded' = Append(yielded, pages[page][row])
    /\ written' = Append(written, pages[page][row])
    /\ phase' = "take"
    /\ row' = row + 1
    /\ UNCHANGED <<pages, page, fetched, new_pc, notNew>>

\* The row fails takewhile: writerows ends and get_new is never resumed.
NewRowStops ==
    /\ new_pc = "rows" /\ row <= Len(pages[page])
    /\ \/ phase = "drop" /\ ~DropPred(pages[page][row])
       \/ phase = "take"
    /\ ~TakePred(pages[page][row])
    /\ yielded' = Append(yielded, pages[page][row])
    /\ phase' = "stop"
    /\ row' = row + 1
    /\ UNCHANGED <<pages, page, fetched, written, new_pc, notNew>>

\* The row goes to a consumer that reads everything.
NewRowRead ==
    /\ phase = "all" /\ new_pc = "rows" /\ row <= Len(pages[page])
    /\ yielded' = Append(yielded, pages[page][row])
    /\ row' = row + 1
    /\ UNCHANGED <<pages, page, fetched, phase, written, new_pc, notNew>>

\* new.py 100-102: the rows of the page are exhausted; with a next link
\* get_new is called on that page, without one it ends.
NewNextPage ==
    /\ Pulling /\ new_pc = "rows" /\ row > Len(pages[page])
    /\ IF get_next(page) # 0
       THEN page' = get_next(page) /\ new_pc' = "fetch"
       ELSE page' = page /\ new_pc' = "done"
    /\ UNCHANGED <<pages, row, fetched, yielded, phase, written, notNew>>

NextNew ==
    \/ NewFetch
    \/ NewRowDropped
    \/ NewRowWritten
    \/ NewRowStops
    \/ NewRowRead
    \/ NewNextPage

----------------------------------------------------------------------------
(* get_afd_index: afd.py 182-199. *)

\* Most children of the content of the index page.
MaxIndex == 5

\* afd.py 21-22.
CURRENT_ID == "Current_discussions"
OLD_ID     == "Old_discussions"

SectionH3(id) == El("h3", NoClass, NoText, <<Span(id, {"mw-headline"}, <<"Discussions">>, <<>>)>>)

\* The children the index page is built from: the two section headings,
\* lists of links and a paragraph.
h3Current == SectionH3(CURRENT_ID)
h3Old     == SectionH3(OLD_ID)
ulDay     == El("ul", NoClass, NoText, <<El("li", NoClass, NoText, <<aX>>)>>)
ulMore    == El("ul", NoClass, NoText, <<a5, aName, liX>>)
ulIcon    == El("ul", NoClass, NoText, <<aMixed, aImg>>)
pNote     == El("p", NoClass, <<"note">>, <<aBare>>)

IndexChildren == {h3Current, h3Old, ulDay, ulMore, ulIcon, pNote}

\* child_matching returns None, and find_h3 and find_ul raise: positions are
\* 1, 2, ..., so 0 and -1 are free for the two.
None   == 0
Raised == -1

\* The loop of child_matching, afd.py 77-82; f is the set of the elements the
\* predicate holds of.
RECURSIVE ChildMatchingLoop(_, _, _)
ChildMatchingLoop(el, f, i) ==
    IF i > Len(el) THEN None
    ELSE IF el[i] \in f THEN i
    ELSE ChildMatchingLoop(el, f, i + 1)

\* A child_matching that ignores start: the search starts at the first child whatever start is.
ChildMatchingFromFirst(el, f, start) == ChildMatchingLoop(el, f, 1)

\* child_matching: afd.py 75-82.
child_matching(el, f, start) == ChildMatchingLoop(el, f, start)

\* has_span: afd.py 67-72, over the span children of el.
has_span(id_value, el) ==
    \E i \in 1..Len(el.kids) : el.kids[i].tag = "span" /\ el.kids[i].id = id_value

\* find_h3: afd.py 102-111.
find_h3(els, id_value, start) ==
    LET i == child_matching(els, {e \in Range(els) : e.tag = "h3" /\ has_span(id_value, e)}, start)
    IN  IF i = None THEN Raised ELSE i

\* find_ul: afd.py 114-119.
find_ul(els, start) ==
    LET i == child_matching(els, {e \in Range(els) : e.tag = "ul"}, start)
    IN  IF i = None THEN Raised ELSE i

\* iter_h3_ul_links: afd.py 182-188.  An exception of find_h3 leaves the
\* function before find_ul is called.
iter_h3_ul_links(els, id_value, start) ==
    LET h == find_h3(els, id_value, start)
    IN  IF h = Raised THEN Raised ELSE find_ul(els, h)

IdleIndex ==
    /\ index = <<>> /\ cursor = 0 /\ pending = <<>> /\ index_links = <<>>
    /\ ix_pc = "idle"

\* get_afd_index has been called; index is the content of the page it gets.
InitIndex ==
    /\ index \in SeqsUpTo(IndexChildren, MaxIndex)
    /\ cursor = 1
    /\ pending = <<>>
    /\ index_links = <<>>
    /\ ix_pc = "current"

\* afd.py 196: the list of the current discussions is located.
IndexFindCurrent ==
    /\ ix_pc = "current"
    /\ LET c == iter_h3_ul_links(index, CURRENT_ID, cursor)
       IN  IF c = Raised
           THEN ix_pc' = "error" /\ UNCHANGED <<cursor, pending>>
           ELSE ix_pc' = "links1" /\ cursor' = c /\ pending' = FindallA(index[c])
    /\ UNCHANGED <<index, index_links, notIndex>>

\* afd.py 198: the list of the old discussions is located, from the cursor
\* on; the cursor it returns is dropped.
IndexFindOld ==
    /\ ix_pc = "old"
    /\ LET c == iter_h3_ul_links(index, OLD_ID, cursor)
       IN  IF c = Raised
           THEN ix_pc' = "error" /\ UNCHANGED pending
           ELSE ix_pc' = "links2" /\ pending' = FindallA(index[c])
    /\ UNCHANGED <<index, cursor, index_links, notIndex>>

\* `yield from links`: one turn of find_links on the list.
IndexLinkYield ==
    /\ ix_pc \in {"links1", "links2"} /\ pending # <<>>
    /\ FindLinksTurn(Head(pending)) = "yield"
    /\ index_links' = Append(index_links, Urljoin(INDEX_URI, Head(pending).href))
    /\ pending' = Tail(pending)
    /\ UNCHANGED <<index, cursor, ix_pc, notIndex>>

IndexLinkSkip ==
    /\ ix_pc \in {"links1", "links2"} /\ pending # <<>>
    /\ FindLinksTurn(Head(pending)) = "skip"
    /\ pending' = Tail(pending)
    /\ UNCHANGED <<index, cursor, index_links, ix_pc, notIndex>>

IndexLinkRaise ==
    /\ ix_pc \in {"links1", "links2"} /\ pending # <<>>
    /\ FindLinksTurn(Head(pending)) = "raise"
    /\ ix_pc' = "error"
    /\ UNCHANGED <<index, cursor, pending, index_links, notIndex>>

\* find_links is exhausted: on to the old discussions, or to the end.
IndexLinksEnd ==
    /\ ix_pc \in {"links1", "links2"} /\ pending = <<>>
    /\ ix_pc' = IF ix_pc = "links1" THEN "old" ELSE "done"
    /\ UNCHANGED <<index, cursor, pending, index_links, notIndex>>

NextIndex ==
    \/ IndexFindCurrent
    \/ IndexFindOld
    \/ IndexLinkYield
    \/ IndexLinkSkip
    \/ IndexLinkRaise
    \/ IndexLinksEnd

----------------------------------------------------------------------------
(* afd.py main: the days scraped. *)

(* A date is the number of its day in 2017 (1 is January 1st, a Sunday).    *)

\* Longest --date-range, in days after its first day.
MaxSpan == 12
\* Largest --week.
MaxWeek == 2

\* --week omitted: click's default=None, afd.py 429.
NoWeek == -1

\* The first days of the ranges tried: June 28th (July 2017 begins on a
\* Saturday) and September 28th (October 2017 begins on a Sunday).
RangeStarts == {179, 271}

MonthLen == <<31, 28, 31, 30, 31, 30, 31, 31, 30, 31, 30, 31>>

RECURSIVE MonthStart(_)
MonthStart(m) == IF m = 1 THEN 1 ELSE MonthStart(m - 1) + MonthLen[m - 1]

MonthOf(d) == CHOOSE m \in 1..12 : MonthStart(m) <= d /\ d < MonthStart(m) + MonthLen[m]

\* date.day
DayOfMonth(d) == d - MonthStart(MonthOf(d)) + 1

\* The column of a date in calendar.Calendar(firstweekday=6), afd.py 468:
\* 0 is Sunday.
Weekday(d) == (d - 1) % 7

\* cal.itermonthdates(2017, m): the dates of the weeks that meet the month,
\* from the Sunday of its first week to the Saturday of its last.
itermonthdates(m) ==
    LET first == MonthStart(m)
        last  == MonthStart(m) + MonthLen[m] - 1
        from  == first - Weekday(first)
        to    == last + (6 - Weekday(last))
    IN  [i \in 1..(to - from + 1) |-> from + i - 1]

\* list(islice(month, 7)), the n-th time it is evaluated (n = 0 the first).
Islice7(month, n) ==
    SubSeq(month, 7 * n + 1, IF 7 * n + 7 <= Len(month) THEN 7 * n + 7 ELSE Len(month))

\* in_week: afd.py 337-379.  The cache holds, under (year, month, week_num),
\* the very set computed here, so a hit returns what a miss computes.
in_week(week_num, date) ==
    LET month == itermonthdates(MonthOf(date))
        first_week == Islice7(month, 0)
        n == IF week_num > 0 /\ DayOfMonth(first_week[1]) <= 7
             THEN week_num - 1 ELSE week_num
    IN  date \in Range(Islice7(month, n))

\* afd.py 463-465: `while current < end: dates.append(current.date())`.
RECURSIVE DatesLoop(_, _)
DatesLoop(current, end) ==
    IF current < end THEN <<current>> \o DatesLoop(current + 1, end) ELSE <<>>

\* afd.py 467: `if week:`, false of None and of 0.
Truthy(w) == w # NoWeek /\ w # 0

IdleMain ==
    /\ date_range = <<0, 0>> /\ week = 0 /\ dates = <<>> /\ scraped = <<>>
    /\ main_pc = "idle"

\* main has been called with --date-range and, perhaps, --week.
InitMain ==
    /\ date_range \in {<<a, b>> : <<a, b>> \in
           UNION {(s..(s + MaxSpan)) \X (s..(s + MaxSpan)) : s \in RangeStarts}}
    /\ date_range[1] <= date_range[2]
    /\ week \in {NoWeek} \cup 0..MaxWeek
    /\ dates = <<>>
    /\ scraped = <<>>
    /\ main_pc = "range"

\* afd.py 459-465: the list of the days of the range.
MainDates ==
    /\ main_pc = "range"
    /\ dates' = DatesLoop(date_range[1], date_range[2])
    /\ main_pc' = "links"
    /\ UNCHANGED <<date_range, week, scraped, notMain>>

\* afd.py 484-485: the next day passes the week filter (or there is none), and
\* its log page is scraped.
MainScrape ==
    /\ main_pc = "links" /\ dates # <<>>
    /\ Truthy(week) => in_week(week, Head(dates))
    /\ scraped' = Append(scraped, Head(dates))
    /\ dates' = Tail(dates)
    /\ UNCHANGED <<date_range, week, main_pc, notMain>>

\* afd.py 470-471: the next day is not in the week asked for.
MainSkip ==
    /\ main_pc = "links" /\ dates # <<>>
    /\ Truthy(week) /\ ~in_week(week, Head(dates))
    /\ dates' = Tail(dates)
    /\ UNCHANGED <<date_range, week, scraped, main_pc, notMain>>

MainEnd ==
    /\ main_pc = "links" /\ dates = <<>>
    /\ main_pc' = "done"
    /\ UNCHANGED <<date_range, week, dates, scraped, notMain>>

NextMain == MainDates \/ MainScrape \/ MainSkip \/ MainEnd

----------------------------------------------------------------------------
(* The specifications, one for each part of the scripts. *)

InitSpecBreakBy ==
    InitBreakBy /\ IdleAfds /\ IdleLinks /\ IdleNew /\ IdleIndex /\ IdleMain

SpecBreakBy == InitSpecBreakBy /\ [][NextBreakBy]_vars

InitSpecAfds ==
    IdleBreakBy /\ InitAfds /\ IdleLinks /\ IdleNew /\ IdleIndex /\ IdleMain

SpecAfds == InitSpecAfds /\ [][NextAfds]_vars

InitSpecLinks ==
    IdleBreakBy /\ IdleAfds /\ InitLinks /\ IdleNew /\ IdleIndex /\ IdleMain

SpecLinks == InitSpecLinks /\ [][NextLinks]_vars

InitSpecNew ==
    IdleBreakBy /\ IdleAfds /\ IdleLinks /\ InitNew /\ IdleIndex /\ IdleMain

\* The script is one thread: while a step is possible, it is taken.
SpecNew == InitSpecNew /\ [][NextNew]_vars /\ WF_vars(NextNew)

InitSpecIndex ==
    IdleBreakBy /\ IdleAfds /\ IdleLinks /\ IdleNew /\ InitIndex /\ IdleMain

SpecIndex == InitSpecIndex /\ [][NextIndex]_vars

InitSpecMain ==
    IdleBreakBy /\ IdleAfds /\ IdleLinks /\ IdleNew /\ IdleIndex /\ InitMain

SpecMain == InitSpecMain /\ [][NextMain]_vars

\* Any one of the parts.
Init ==
    \/ InitSpecBreakBy \/ InitSpecAfds \/ InitSpecLinks
    \/ InitSpecNew \/ InitSpecIndex \/ InitSpecMain

Next == NextBreakBy \/ NextAfds \/ NextLinks \/ NextNew \/ NextIndex \/ NextMain

Spec == Init /\ [][Next]_vars

----------------------------------------------------------------------------
(* break_by: the chunks. *)

\* The positions of xs at which the chunks of gs start.
RECURSIVE StartsFrom(_, _)
StartsFrom(gs, at) ==
    IF gs = <<>> THEN {} ELSE {at} \cup StartsFrom(Tail(gs), at + Len(Head(gs)))

\* C1: break_by never yields an empty chunk; the chunks yielded and the deque
\* are at every moment the input read so far; and once it has ended the chunks
\* concatenate to xs, a chunk starts before xs[i] (i past the first element)
\* exactly when fn holds of xs[i], an input without boundary element gives one
\* chunk and the empty input none.
C1_BreakByChunks ==
    /\ \A g \in 1..Len(groups) : groups[g] # <<>>
    /\ bb_pc = "loop" => Flatten(groups) \o accum = SubSeq(xs, 1, pos - 1)
    /\ bb_pc = "done" =>
        /\ Flatten(groups) = xs
        /\ StartsFrom(groups, 1) \ {1} = {i \in 2..Len(xs) : xs[i] \in fn}
        /\ \A g \in 2..Len(groups) : Head(groups[g]) \in fn
        /\ (xs # <<>> /\ Range(xs) \cap fn = {}) => groups = <<xs>>
        /\ xs = <<>> => groups = <<>>

\* break_by has ended on an input that starts with a non-boundary element and
\* was cut into several chunks, one of them longer than one element.
C1_Witness ==
    /\ bb_pc = "done"
    /\ Len(groups) >= 2
    /\ xs[1] \notin fn
    /\ \E g \in 1..Len(groups) : Len(groups[g]) >= 2

----------------------------------------------------------------------------
(* get_log_page: the rows. *)

Hits(tuple) == (tuple.tags \cup tuple.tokens) \cap BIO_TAGS

BlocksOf(rs) == [i \in 1..Len(rs) |-> rs[i].block]

\* C2: get_log_page has emitted a row for exactly the tuples of get_afds whose
\* tags and tokens meet BIO_TAGS, in the order of their blocks, and the Hits
\* column of a row holds each member of that intersection once, in ascending
\* string order.
C2_RowsAreTheBioRecords ==
    /\ BlocksOf(rows)
         = BlocksOf(SelectSeq(records, LAMBDA r : Hits(r.tuple) # {}))
    /\ \A i \in 1..Len(rows) : \A j \in 1..Len(rows) :
         i < j => rows[i].block < rows[j].block
    /\ \A i \in 1..Len(rows) :
         \E k \in 1..Len(records) :
            /\ records[k].block = rows[i].block
            /\ LET hits == rows[i].row.hits
               IN  /\ Range(hits) = Hits(records[k].tuple)
                   /\ \A a \in 1..Len(hits) : \A b \in 1..Len(hits) :
                        a < b => StrLess(hits[a], hits[b])

\* A page of several discussions has been read to its end, and exactly one
\* of them made a row, with two hits.
C2_Witness ==
    /\ afd_pc = "done"
    /\ Len(records) >= 2
    /\ Len(rows) = 1
    /\ Len(rows[1].row.hits) = 2

----------------------------------------------------------------------------
(* get_afds: the blocks without a heading. *)

\* C3 (as claimed): on a page none of whose blocks raises, every block with
\* a well-formed heading has yielded its tuple when get_afds has ended, also
\* the blocks that follow a block without a genuine heading.
C3_HeadinglessBlockIsSkipped ==
    (afd_pc = "done" /\ \A j \in 1..Len(Blocks) : Block(Blocks[j]).how # "raise")
    => \A k \in 1..Len(Blocks) :
         Block(Blocks[k]).how = "yield"
         => \E i \in 1..Len(records) : records[i].block = k

----------------------------------------------------------------------------
(* get_afds: the heading. *)

\* The headline span of the heading of block k.
BlockSpan(k) == HeadlineSpan(Head(Unwrap(Blocks[k]).section))

\* C4 (as claimed): the tuple of a block whose headline span has no child has
\* the span's text as title, no article link and keep = False, and the row of
\* that block has no Page Link either; with a child, title and link are the
\* anchor's and keep is True unless the anchor's class is 'new'.
C4_RedlinkHasNoPageLink ==
    /\ \A i \in 1..Len(records) :
         LET t == records[i].tuple
             span == BlockSpan(records[i].block)
         IN  IF Len(span.kids) = 0
             THEN t.title = span.text /\ t.links[1] = NoneUrl /\ t.keep = FALSE
             ELSE /\ t.title = span.kids[1].text
                  /\ t.links[1] = span.kids[1].href
                  /\ t.keep = (span.kids[1].cls # {"new"})
    /\ \A i \in 1..Len(rows) :
         Len(BlockSpan(rows[i].block).kids) = 0 => rows[i].row.page_link = NoneUrl

----------------------------------------------------------------------------
(* find_links: the links of a subtree. *)

\* The text a reader sees on an anchor: its own text and its descendants'.
VisibleText(a) == TextOrEmpty(a.text) \o AllTextOfSeq(a.kids)

\* The anchors whose link the contract asks for.
Wanted(a) == a.href # NoneUrl /\ ~isdigit(VisibleText(a))

HrefsOf(as) == [i \in 1..Len(as) |-> Urljoin(INDEX_URI, as[i].href)]

\* C5 (as claimed): find_links raises on no anchor, and what it has yielded
\* when it ends is the resolved href of each descendant anchor that has an
\* href and whose visible text is not a number, in document order.
C5_FindLinksNeverRaises ==
    /\ fl_pc # "error"
    /\ fl_pc = "done" => links = HrefsOf(SelectSeq(FindallA(parent), Wanted))

----------------------------------------------------------------------------
(* new.py: the date window and the walk over the pages. *)

\* main has written all it will: takewhile has ended, or get_new has.
MainOver == phase = "stop" \/ (phase \in {"drop", "take"} /\ new_pc = "done")

OnTargetDate(r) == r.day = 0

\* C6 (as claimed): on a listing in descending order, what main has written
\* when it is over is the rows of the listing dated on the target date, in
\* the listing's order.
C6_WindowKeepsTargetDate ==
    MainOver => written = SelectSeq(Flatten(pages), OnTargetDate)

Upto(n) == [i \in 1..n |-> i]

\* What get_new has done so far is a walk along the chain: the pages fetched
\* are the first pages of the chain, each once and in order, the rows yielded
\* are the first rows of the listing, and at its end all pages were fetched
\* and all rows yielded.
GetNewWalksChain ==
    /\ fetched = Upto(Len(fetched))
    /\ Len(fetched) <= Len(pages)
    /\ yielded = SubSeq(Flatten(pages), 1, Len(yielded))
    /\ new_pc = "done" => fetched = Upto(Len(pages)) /\ yielded = Flatten(pages)

C8_NoFetchAfterOlderRow ==
    [][(phase # "all" /\ \E i \in 1..Len(yielded) : yielded[i].day < 0)
         => fetched' = fetched]_vars

----------------------------------------------------------------------------
(* get_afd_index: the two sections of the index. *)

\* The least member of a set of positions, Raised for the empty set.
LeastOrRaised(S) == IF S = {} THEN Raised ELSE CHOOSE i \in S : \A j \in S : i <= j

H3At(id, from) ==
    IF from = Raised THEN Raised
    ELSE LeastOrRaised({i \in from..Len(index) :
                          index[i].tag = "h3" /\ has_span(id, index[i])})

UlAt(from) ==
    IF from = Raised THEN Raised
    ELSE LeastOrRaised({i \in from..Len(index) : index[i].tag = "ul"})

\* The list of the current discussions and that of the old ones.
CurrentList == UlAt(H3At(CURRENT_ID, 1))
OldList     == UlAt(H3At(OLD_ID, CurrentList))

\* The links find_links gives for a list, when it raises on none.
ListLinks(ul) ==
    HrefsOf(SelectSeq(FindallA(ul), LAMBDA a : a.href # NoneUrl /\ ~isdigit(TextOrEmpty(a.text))))

\* C9: find_h3 and find_ul return the least position from start on whose
\* child matches and raise when there is none; get_afd_index ends only when
\* both headings and their lists were found, the old ones from the current
\* list on, having yielded the links of the current list and then those of
\* the old list; with the current heading or list missing it raises before
\* yielding anything, with the old ones missing it never reaches their list.
C9_IndexSectionsFoundOrError ==
    /\ \A start \in 1..(Len(index) + 1) :
         /\ find_ul(index, start) = UlAt(start)
         /\ \A id \in {CURRENT_ID, OLD_ID} : find_h3(index, id, start) = H3At(id, start)
    /\ ix_pc = "done" =>
         /\ CurrentList # Raised /\ OldList # Raised
         /\ index_links = ListLinks(index[CurrentList]) \o ListLinks(index[OldList])
    /\ CurrentList = Raised => ix_pc \in {"current", "error"} /\ index_links = <<>>
    /\ OldList = Raised => ix_pc \in {"current", "links1", "old", "error"}

\* get_afd_index has ended after yielding links of both lists, on a page
\* where the first list of the page is not the list of the current discussions.
C9_Witness ==
    /\ ix_pc = "done"
    /\ Len(index_links) >= 2
    /\ CurrentList > UlAt(1)
    /\ ListLinks(index[CurrentList]) # <<>> /\ ListLinks(index[OldList]) # <<>>

----------------------------------------------------------------------------
(* afd.py main: the days of a range. *)

\* The row of a date in the calendar of its month, 0 the row of the 1st.
CalendarRow(d) ==
    LET first == MonthStart(MonthOf(d))
    IN  (d - (first - Weekday(first))) \div 7

\* The row that is the first full week of the month of d: the first row when
\* the month begins on a Sunday, else the second.
FirstFullRow(d) == IF Weekday(MonthStart(MonthOf(d))) = 0 THEN 0 ELSE 1

\* Week w of the help text: 0 the first week of the month, 1 the first full
\* week, and so on from there.
InHelpWeek(w, d) ==
    CalendarRow(d) = (IF w = 0 THEN 0 ELSE FirstFullRow(d) + w - 1)

\* C10 (as claimed): when main has gone through --date-range A/B, the days
\* scraped are the days from A to B, both included, that lie in week --week
\* of their month, or all of them when --week is omitted.
C10_RangeIsInclusive ==
    main_pc = "done" =>
        Range(scraped) = {d \in date_range[1]..date_range[2] :
                            week # NoWeek => InHelpWeek(week, d)}

----------------------------------------------------------------------------
(* get_afds: the menu of a block and its bag of tags and tokens. *)

ViewAfd == <<"View", "AfD">>

\* The nodes of a subtree level by level: the element, its children, their
\* children, ..., each level from left to right.
RECURSIVE Levels(_)
Levels(level) ==
    IF level = <<>> THEN <<>>
    ELSE level \o Levels(Flatten([i \in 1..Len(level) |-> level[i].kids]))

ViewAfdNodes(e) == SelectSeq(Levels(<<e>>), LAMBDA n : n.text = ViewAfd)

\* The elements of a block after its heading.
AfterHeading(k) == Tail(Unwrap(Blocks[k]).section)

\* The position of the first element holding a 'View AfD' node, 0 for none.
MenuAt(es) ==
    LET with == {j \in 1..Len(es) : ViewAfdNodes(es[j]) # <<>>}
    IN  IF with = {} THEN 0 ELSE CHOOSE j \in with : \A m \in with : j <= m

\* The words of the elements of es other than the k-th.
WordsBut(es, k) == UNION {Range(all_text(es[j])) : j \in (1..Len(es)) \ {k}}

\* C11: in every tuple get_afds has yielded, the discussion link is the href
\* of the first 'View AfD' node, breadth first, of the first element after
\* the heading that holds one, and None when no element holds one; the tokens
\* are the words of all the other elements after the heading, before and
\* after that element, and the tags are the WP: shortcuts in those words; the
\* element of the link gives nothing to either.
C11_MenuLinkAndBag ==
    \A i \in 1..Len(records) :
        LET es == AfterHeading(records[i].block)
            k  == MenuAt(es)
            t  == records[i].tuple
        IN  /\ t.links[2] = (IF k = 0 THEN NoneUrl ELSE Head(ViewAfdNodes(es[k])).href)
            /\ t.tokens = WordsBut(es, k)
            /\ t.tags = UNION {WpTagsIn(w) : w \in WordsBut(es, k)}

\* A tuple was yielded for a block with text before its menu and a second
\* menu after it, whose menu holds two 'View AfD' anchors, the first of the
\* document deeper than the other, and a shortcut found nowhere else.
C11_Witness ==
    \E i \in 1..Len(records) :
        LET es == AfterHeading(records[i].block)
            k  == MenuAt(es)
            t  == records[i].tuple
        IN  /\ 1 < k /\ k < Len(es)
            /\ \E j \in (k + 1)..Len(es) : ViewAfdNodes(es[j]) # <<>>
            /\ Head(ViewAfdNodes(es[k])) # FindTextNodeDepthFirst(es[k], ViewAfd)
            /\ t.links[2] = Rel("/wiki/AfD/Shallow")
            /\ "WP:NACTOR" \notin t.tags
            /\ "WP:ARTIST" \in t.tags /\ "WP:BIO" \in t.tags /\ "WP:GNG" \in t.tags

====
